---- MODULE Spec2Model ----
(***************************************************************************)
(* Model of the symbolic expression engine of src/main.cpp.                *)
(*                                                                         *)
(* The heap is the sequence of Expression objects created so far; an       *)
(* ExpressionPtr is an index into it, or NULL.  Every constructor appends  *)
(* one object and never touches another.  handles is the set of pointers   *)
(* the caller of the API has received and may pass on.  Every call of the  *)
(* API is one action; its outcome is left in result.                       *)
(*                                                                         *)
(* A call through a null ExpressionPtr is undefined behaviour: the         *)
(* outcome kind is "ub", and the process either dies there or goes on      *)
(* with a value nothing is known about.                                    *)
(***************************************************************************)
EXTENDS Integers, Sequences, FiniteSets, TLC

\* ---------------------------------------------------------------- bounds
\* The number of calls of the API the caller makes.
MaxCalls == 4

\* Inputs of the caller: the literals and names main() uses.
Lits == {2, 3}
VarNames == {"foo"}
Names == {"a", "foo"}
\* The two orders in which a build may evaluate the arguments of a call.
ArgOrders == {"LR", "RL"}

NULL == 0

UnaryKinds == {"Neg", "Exp", "Log", "Sin", "Cos"}
BinaryKinds == {"Sum", "Difference", "Product", "Division"}

VARIABLES heap, handles, apiOnly, calls, result, crashed

vars == <<heap, handles, apiOnly, calls, result, crashed>>

\* ------------------------------------------------------------ the objects
Numeric(v) ==
  [kind |-> "Numeric", value |-> v, variable |-> "", first |-> NULL, second |-> NULL]

Variable(s) ==
  [kind |-> "Variable", value |-> 0, variable |-> s, first |-> NULL, second |-> NULL]

UnaryOperation(k, operand) ==
  [kind |-> k, value |-> 0, variable |-> "", first |-> operand, second |-> NULL]

BinaryOperation(k, fst, snd) ==
  [kind |-> k, value |-> 0, variable |-> "", first |-> fst, second |-> snd]

\* Mutant of MakeShared: the new object is written over its first operand.
MakeSharedOverOperand(h, node) ==
  [kind |-> "ok",
   heap |-> IF node.first # NULL THEN [Append(h, node) EXCEPT ![node.first] = node]
            ELSE Append(h, node),
   ptr |-> Len(h) + 1]

\* std::make_shared: a new object behind the existing ones.
MakeShared(h, node) ==
  [kind |-> "ok", heap |-> Append(h, node), ptr |-> Len(h) + 1]

\* ------------------------------------------------- construction functions
numeric(h, x) == MakeShared(h, Numeric(x))
variable(h, s) == MakeShared(h, Variable(s))
neg(h, x) == MakeShared(h, UnaryOperation("Neg", x))
exp(h, x) == MakeShared(h, UnaryOperation("Exp", x))
log(h, x) == MakeShared(h, UnaryOperation("Log", x))
sin(h, x) == MakeShared(h, UnaryOperation("Sin", x))
cos(h, x) == MakeShared(h, UnaryOperation("Cos", x))
sum(h, a, b) == MakeShared(h, BinaryOperation("Sum", a, b))
difference(h, a, b) == MakeShared(h, BinaryOperation("Difference", a, b))
product(h, a, b) == MakeShared(h, BinaryOperation("Product", a, b))
division(h, a, b) == MakeShared(h, BinaryOperation("Division", a, b))

\* ------------------------------------------------------------------ deriv
\* An outcome of deriv: kind "ok" with the heap after the call and the
\* pointer returned, "throw" (std::runtime_error) or "ub"; the objects a
\* failed call had made are released with its temporaries.
Failed(k, h) == [kind |-> k, heap |-> h, ptr |-> NULL]

RECURSIVE deriv(_, _, _)

NumericDeriv(h, p, s) == [kind |-> "ok", heap |-> h, ptr |-> NULL]

\* Mutant of VariableDeriv: the two branches exchanged.
VariableDerivInverted(h, p, s) ==
  IF s = h[p].variable THEN numeric(h, 0) ELSE numeric(h, 1)

VariableDeriv(h, p, s) ==
  IF s = h[p].variable THEN numeric(h, 1) ELSE numeric(h, 0)

NegDeriv(h, p, s) ==
  LET d == deriv(h, h[p].first, s)
  IN  IF d.kind # "ok" THEN Failed(d.kind, h) ELSE neg(d.heap, d.ptr)

\* Mutant of ExpDeriv: the chain rule, product in place of sum.
ExpDerivProduct(h, p, s) ==
  LET d == deriv(h, h[p].first, s)
  IN  IF d.kind # "ok" THEN Failed(d.kind, h)
      ELSE LET e == exp(d.heap, h[p].first)
           IN  product(e.heap, e.ptr, d.ptr)

ExpDeriv(h, p, s) ==
  LET d == deriv(h, h[p].first, s)
  IN  IF d.kind # "ok" THEN Failed(d.kind, h)
      ELSE LET e == exp(d.heap, h[p].first)
           IN  sum(e.heap, e.ptr, d.ptr)

LogDeriv(h, p, s) ==
  LET d == deriv(h, h[p].first, s)
  IN  IF d.kind # "ok" THEN Failed(d.kind, h)
      ELSE division(d.heap, d.ptr, h[p].first)

SinDeriv(h, p, s) ==
  LET d == deriv(h, h[p].first, s)
  IN  IF d.kind # "ok" THEN Failed(d.kind, h)
      ELSE LET c == cos(d.heap, h[p].first)
           IN  product(c.heap, d.ptr, c.ptr)

\* Mutant of CosDeriv: the sign of the derivative of cos lost.
CosDerivNoNeg(h, p, s) ==
  LET d == deriv(h, h[p].first, s)
  IN  IF d.kind # "ok" THEN Failed(d.kind, h)
      ELSE LET si == sin(d.heap, h[p].first)
           IN  product(si.heap, d.ptr, si.ptr)

CosDeriv(h, p, s) ==
  LET d == deriv(h, h[p].first, s)
  IN  IF d.kind # "ok" THEN Failed(d.kind, h)
      ELSE LET si == sin(d.heap, h[p].first)
               n == neg(si.heap, si.ptr)
           IN  product(n.heap, d.ptr, n.ptr)

\* Mutant of BinaryOperationDeriv: returns as Numeric::deriv does.
BinaryOperationDerivReturns(h, p, s) == [kind |-> "ok", heap |-> h, ptr |-> NULL]

BinaryOperationDeriv(h, p, s) == Failed("throw", h)

\* The virtual call p->deriv(s).
deriv(h, p, s) ==
  IF p = NULL THEN Failed("ub", h)
  ELSE CASE h[p].kind = "Numeric" -> NumericDeriv(h, p, s)
         [] h[p].kind = "Variable" -> VariableDeriv(h, p, s)
         [] h[p].kind = "Neg" -> NegDeriv(h, p, s)
         [] h[p].kind = "Exp" -> ExpDeriv(h, p, s)
         [] h[p].kind = "Log" -> LogDeriv(h, p, s)
         [] h[p].kind = "Sin" -> SinDeriv(h, p, s)
         [] h[p].kind = "Cos" -> CosDeriv(h, p, s)
         [] OTHER -> BinaryOperationDeriv(h, p, s)

\* ------------------------------------------------------------------- eval
\* A double is <<"int", n>> while it is a small integer, which negation,
\* +, - and * keep exact; a value made by exp, log, sin, cos or / is the
\* term of that function over its arguments.
Dbl(n) == <<"int", n>>
IsInt(v) == v[1] = "int"

FncsNeg(x) == IF IsInt(x) THEN Dbl(0 - x[2]) ELSE <<"neg", x>>
FncsExp(x) == <<"exp", x>>
FncsLog(x) == <<"log", x>>
FncsSin(x) == <<"sin", x>>
FncsCos(x) == <<"cos", x>>
StdPlus(a, b) == IF IsInt(a) /\ IsInt(b) THEN Dbl(a[2] + b[2]) ELSE <<"plus", a, b>>
StdMinus(a, b) == IF IsInt(a) /\ IsInt(b) THEN Dbl(a[2] - b[2]) ELSE <<"minus", a, b>>
StdMultiplies(a, b) ==
  IF IsInt(a) /\ IsInt(b) THEN Dbl(a[2] * b[2]) ELSE <<"multiplies", a, b>>
StdDivides(a, b) == <<"divides", a, b>>

Fnc1(k, x) ==
  CASE k = "Neg" -> FncsNeg(x)
    [] k = "Exp" -> FncsExp(x)
    [] k = "Log" -> FncsLog(x)
    [] k = "Sin" -> FncsSin(x)
    [] OTHER -> FncsCos(x)

Fnc2(k, a, b) ==
  CASE k = "Sum" -> StdPlus(a, b)
    [] k = "Difference" -> StdMinus(a, b)
    [] k = "Product" -> StdMultiplies(a, b)
    [] OTHER -> StdDivides(a, b)

NoVal == <<"none">>
EvFailed(k) == [kind |-> k, val |-> NoVal]

RECURSIVE eval(_, _, _)

NumericEval(h, p, ord) == [kind |-> "ok", val |-> Dbl(h[p].value)]

VariableEval(h, p, ord) == EvFailed("throw")

UnaryOperationEval(h, p, ord) ==
  LET e == eval(h, h[p].first, ord)
  IN  IF e.kind # "ok" THEN EvFailed(e.kind)
      ELSE [kind |-> "ok", val |-> Fnc1(h[p].kind, e.val)]

\* Mutant of BinaryOperationEval: the operands handed to Fnc exchanged.
BinaryOperationEvalSwapped(h, p, ord) ==
  LET a == eval(h, h[p].first, ord)
      b == eval(h, h[p].second, ord)
  IN  IF a.kind # "ok" THEN EvFailed(a.kind)
      ELSE IF b.kind # "ok" THEN EvFailed(b.kind)
      ELSE [kind |-> "ok", val |-> Fnc2(h[p].kind, b.val, a.val)]

\* The two operands are arguments of one call: the build picks which is
\* evaluated first, and the first that fails ends the call.
BinaryOperationEval(h, p, ord) ==
  LET a == eval(h, h[p].first, ord)
      b == eval(h, h[p].second, ord)
      fst == IF ord = "LR" THEN a ELSE b
      snd == IF ord = "LR" THEN b ELSE a
  IN  IF fst.kind # "ok" THEN EvFailed(fst.kind)
      ELSE IF snd.kind # "ok" THEN EvFailed(snd.kind)
      ELSE [kind |-> "ok", val |-> Fnc2(h[p].kind, a.val, b.val)]

\* The virtual call p->eval().
eval(h, p, ord) ==
  IF p = NULL THEN EvFailed("ub")
  ELSE CASE h[p].kind = "Numeric" -> NumericEval(h, p, ord)
         [] h[p].kind = "Variable" -> VariableEval(h, p, ord)
         [] h[p].kind \in UnaryKinds -> UnaryOperationEval(h, p, ord)
         [] OTHER -> BinaryOperationEval(h, p, ord)

\* -------------------------------------------------------------- to_string
\* A std::string is the sequence of its characters.
RECURSIVE Digits(_)
Digits(n) ==
  IF n < 10 THEN <<SubSeq(<<"0","1","2","3","4","5","6","7","8","9">>, n + 1, n + 1)[1]>>
  ELSE Digits(n \div 10) \o Digits(n % 10)

\* std::to_string(double) prints with "%f": six decimals.
StdToString(v) ==
  (IF v < 0 THEN <<"-">> \o Digits(0 - v) ELSE Digits(v))
    \o <<".", "0", "0", "0", "0", "0", "0">>

\* The characters of a name or of an operator literal of the source.
Chars(s) ==
  CASE s = "a" -> <<"a">>
    [] s = "foo" -> <<"f", "o", "o">>
    [] s = "exp(" -> <<"e", "x", "p", "(">>
    [] s = "log(" -> <<"l", "o", "g", "(">>
    [] s = "sin(" -> <<"s", "i", "n", "(">>
    [] s = "cos(" -> <<"c", "o", "s", "(">>
    [] s = " + " -> <<" ", "+", " ">>
    [] s = " - " -> <<" ", "-", " ">>
    [] s = " * " -> <<" ", "*", " ">>
    [] s = " / " -> <<" ", "/", " ">>

TsFailed == [kind |-> "ub", text |-> <<>>]
TsOk(t) == [kind |-> "ok", text |-> t]

RECURSIVE to_string(_, _)

NumericToString(h, p) == TsOk(StdToString(h[p].value))

VariableToString(h, p) == TsOk(Chars(h[p].variable))

NegToString(h, p) ==
  LET t == to_string(h, h[p].first)
  IN  IF t.kind # "ok" THEN TsFailed ELSE TsOk(<<"-">> \o t.text)

ExpToString(h, p) ==
  LET t == to_string(h, h[p].first)
  IN  IF t.kind # "ok" THEN TsFailed ELSE TsOk(Chars("exp(") \o t.text \o <<")">>)

LogToString(h, p) ==
  LET t == to_string(h, h[p].first)
  IN  IF t.kind # "ok" THEN TsFailed ELSE TsOk(Chars("log(") \o t.text \o <<")">>)

SinToString(h, p) ==
  LET t == to_string(h, h[p].first)
  IN  IF t.kind # "ok" THEN TsFailed ELSE TsOk(Chars("sin(") \o t.text \o <<")">>)

CosToString(h, p) ==
  LET t == to_string(h, h[p].first)
  IN  IF t.kind # "ok" THEN TsFailed ELSE TsOk(Chars("cos(") \o t.text \o <<")">>)

\* Mutant of SumToString: the second operand printed first.
SumToStringSwapped(h, p) ==
  LET a == to_string(h, h[p].first)
      b == to_string(h, h[p].second)
  IN  IF a.kind # "ok" \/ b.kind # "ok" THEN TsFailed
      ELSE TsOk(<<"(">> \o b.text \o Chars(" + ") \o a.text \o <<")">>)

SumToString(h, p) ==
  LET a == to_string(h, h[p].first)
      b == to_string(h, h[p].second)
  IN  IF a.kind # "ok" \/ b.kind # "ok" THEN TsFailed
      ELSE TsOk(<<"(">> \o a.text \o Chars(" + ") \o b.text \o <<")">>)

DifferenceToString(h, p) ==
  LET a == to_string(h, h[p].first)
      b == to_string(h, h[p].second)
  IN  IF a.kind # "ok" \/ b.kind # "ok" THEN TsFailed
      ELSE TsOk(<<"(">> \o a.text \o Chars(" - ") \o b.text \o <<")">>)

ProductToString(h, p) ==
  LET a == to_string(h, h[p].first)
      b == to_string(h, h[p].second)
  IN  IF a.kind # "ok" \/ b.kind # "ok" THEN TsFailed
      ELSE TsOk(<<"(">> \o a.text \o Chars(" * ") \o b.text \o <<")">>)

DivisionToString(h, p) ==
  LET a == to_string(h, h[p].first)
      b == to_string(h, h[p].second)
  IN  IF a.kind # "ok" \/ b.kind # "ok" THEN TsFailed
      ELSE TsOk(<<"(">> \o a.text \o Chars(" / ") \o b.text \o <<")">>)

\* The virtual call p->to_string().
to_string(h, p) ==
  IF p = NULL THEN TsFailed
  ELSE CASE h[p].kind = "Numeric" -> NumericToString(h, p)
         [] h[p].kind = "Variable" -> VariableToString(h, p)
         [] h[p].kind = "Neg" -> NegToString(h, p)
         [] h[p].kind = "Exp" -> ExpToString(h, p)
         [] h[p].kind = "Log" -> LogToString(h, p)
         [] h[p].kind = "Sin" -> SinToString(h, p)
         [] h[p].kind = "Cos" -> CosToString(h, p)
         [] h[p].kind = "Sum" -> SumToString(h, p)
         [] h[p].kind = "Difference" -> DifferenceToString(h, p)
         [] h[p].kind = "Product" -> ProductToString(h, p)
         [] OTHER -> DivisionToString(h, p)

\* ------------------------------------------------------------- the caller
\* The outcome of the last call: which function, on which pointers, and
\* what came back.
Res(op, arg, arg2, wrt, kind, ptr, val, text) ==
  [op |-> op, arg |-> arg, arg2 |-> arg2, wrt |-> wrt, kind |-> kind,
   ptr |-> ptr, val |-> val, text |-> text]

Init ==
  /\ heap = <<>>
  /\ handles = {}
  /\ apiOnly = {}
  /\ calls = 0
  /\ result = Res("none", NULL, NULL, "", "ok", NULL, NoVal, <<>>)
  /\ crashed = FALSE

CanCall == ~crashed /\ calls < MaxCalls

\* A construction call returned m; pure says its operands were all built by
\* construction calls alone.
Built(op, a, b, m, pure) ==
  /\ heap' = m.heap
  /\ handles' = handles \cup {m.ptr}
  /\ apiOnly' = IF pure THEN apiOnly \cup {m.ptr} ELSE apiOnly
  /\ calls' = calls + 1
  /\ result' = Res(op, a, b, "", "ok", m.ptr, NoVal, <<>>)
  /\ UNCHANGED crashed

CallNumeric == CanCall /\ \E x \in Lits : Built("numeric", NULL, NULL, numeric(heap, x), TRUE)
CallVariable == CanCall /\ \E s \in VarNames : Built("variable", NULL, NULL, variable(heap, s), TRUE)
CallNeg == CanCall /\ \E x \in handles : Built("neg", x, NULL, neg(heap, x), x \in apiOnly)
CallExp == CanCall /\ \E x \in handles : Built("exp", x, NULL, exp(heap, x), x \in apiOnly)
CallLog == CanCall /\ \E x \in handles : Built("log", x, NULL, log(heap, x), x \in apiOnly)
CallSin == CanCall /\ \E x \in handles : Built("sin", x, NULL, sin(heap, x), x \in apiOnly)
CallCos == CanCall /\ \E x \in handles : Built("cos", x, NULL, cos(heap, x), x \in apiOnly)
CallSum ==
  CanCall /\ \E a, b \in handles :
    Built("sum", a, b, sum(heap, a, b), a \in apiOnly /\ b \in apiOnly)
CallDifference ==
  CanCall /\ \E a, b \in handles :
    Built("difference", a, b, difference(heap, a, b), a \in apiOnly /\ b \in apiOnly)
CallProduct ==
  CanCall /\ \E a, b \in handles :
    Built("product", a, b, product(heap, a, b), a \in apiOnly /\ b \in apiOnly)
CallDivision ==
  CanCall /\ \E a, b \in handles :
    Built("division", a, b, division(heap, a, b), a \in apiOnly /\ b \in apiOnly)

\* The infix builders call the named ones.
OperatorPlus ==
  CanCall /\ \E a, b \in handles :
    Built("sum", a, b, sum(heap, a, b), a \in apiOnly /\ b \in apiOnly)
OperatorTimes ==
  CanCall /\ \E a, b \in handles :
    Built("product", a, b, product(heap, a, b), a \in apiOnly /\ b \in apiOnly)
OperatorMinus ==
  CanCall /\ \E a, b \in handles :
    Built("difference", a, b, difference(heap, a, b), a \in apiOnly /\ b \in apiOnly)
OperatorDivide ==
  CanCall /\ \E a, b \in handles :
    Built("division", a, b, division(heap, a, b), a \in apiOnly /\ b \in apiOnly)

\* e->deriv(s) called by the caller.
CallDeriv ==
  /\ CanCall
  /\ \E e \in handles, s \in Names :
       LET d == deriv(heap, e, s)
       IN  /\ heap' = d.heap
           /\ handles' = IF d.kind = "ok" THEN handles \cup {d.ptr} ELSE handles
           /\ result' = Res("deriv", e, NULL, s, d.kind, d.ptr, NoVal, <<>>)
           /\ IF d.kind = "ub" THEN crashed' \in BOOLEAN ELSE crashed' = crashed
  /\ calls' = calls + 1
  /\ UNCHANGED apiOnly

\* e->eval() called by the caller.
CallEval ==
  /\ CanCall
  /\ \E e \in handles, ord \in ArgOrders :
       LET v == eval(heap, e, ord)
       IN  /\ result' = Res("eval", e, NULL, "", v.kind, NULL, v.val, <<>>)
           /\ IF v.kind = "ub" THEN crashed' \in BOOLEAN ELSE crashed' = crashed
  /\ calls' = calls + 1
  /\ UNCHANGED <<heap, handles, apiOnly>>

\* e->to_string() called by the caller.
CallToString ==
  /\ CanCall
  /\ \E e \in handles :
       LET t == to_string(heap, e)
       IN  /\ result' = Res("to_string", e, NULL, "", t.kind, NULL, NoVal, t.text)
           /\ IF t.kind = "ub" THEN crashed' \in BOOLEAN ELSE crashed' = crashed
  /\ calls' = calls + 1
  /\ UNCHANGED <<heap, handles, apiOnly>>

Next ==
  \/ CallNumeric
  \/ CallVariable
  \/ CallNeg
  \/ CallExp
  \/ CallLog
  \/ CallSin
  \/ CallCos
  \/ CallSum
  \/ CallDifference
  \/ CallProduct
  \/ CallDivision
  \/ OperatorPlus
  \/ OperatorTimes
  \/ OperatorMinus
  \/ OperatorDivide
  \/ CallDeriv
  \/ CallEval
  \/ CallToString

Spec == Init /\ [][Next]_vars


\* ------------------------------------------------------ shapes of a tree
IsUnary(n) == n.kind \in UnaryKinds
IsBinary(n) == n.kind \in BinaryKinds

\* The tree under p holds a BinaryOperation object.
RECURSIVE ContainsBinary(_, _)
ContainsBinary(h, p) ==
  /\ p # NULL
  /\ \/ IsBinary(h[p])
     \/ IsUnary(h[p]) /\ ContainsBinary(h, h[p].first)

\* The tree under p holds a Variable object.
RECURSIVE ContainsVariable(_, _)
ContainsVariable(h, p) ==
  /\ p # NULL
  /\ \/ h[p].kind = "Variable"
     \/ IsUnary(h[p]) /\ ContainsVariable(h, h[p].first)
     \/ IsBinary(h[p]) /\ (ContainsVariable(h, h[p].first) \/ ContainsVariable(h, h[p].second))

\* A well-formed tree of unary operators over one leaf.
RECURSIVE UnaryOnly(_, _)
UnaryOnly(h, p) ==
  /\ p # NULL
  /\ \/ h[p].kind \in {"Numeric", "Variable"}
     \/ IsUnary(h[p]) /\ UnaryOnly(h, h[p].first)

\* The tree under p with the pointers unfolded: what two trees have in
\* common when they are equal in structure.
RECURSIVE Tree(_, _)
Tree(h, p) ==
  IF p = NULL THEN <<"null">>
  ELSE CASE h[p].kind = "Numeric" -> <<"Numeric", h[p].value>>
         [] h[p].kind = "Variable" -> <<"Variable", h[p].variable>>
         [] IsUnary(h[p]) -> <<h[p].kind, Tree(h, h[p].first)>>
         [] OTHER -> <<h[p].kind, Tree(h, h[p].first), Tree(h, h[p].second)>>

\* The call that just returned was e->deriv(s) on an object of kind k.
DerivOf(k) ==
  /\ result.op = "deriv"
  /\ result.arg # NULL
  /\ heap[result.arg].kind = k

\* ----------------------------------------------------------------- claims

\* C1: differentiate(literal(c), x) returns a Literal node holding 0, for
\* every literal c and every name x.
C1_LiteralDerivIsLiteralZero ==
  \A k \in {"Numeric"} :
    DerivOf(k) =>
      /\ result.kind = "ok"
      /\ result.ptr # NULL
      /\ heap[result.ptr] = Numeric(0)

\* C2: every UnaryOp node has one non-null child and every BinaryOp node two
\* non-null children, in every state construction and differentiate calls
\* reach.
C2_ChildrenNonNull ==
  \A i \in 1..Len(heap) :
    /\ IsUnary(heap[i]) => heap[i].first # NULL
    /\ IsBinary(heap[i]) => heap[i].first # NULL /\ heap[i].second # NULL

\* C3: differentiating a well-formed unary-only tree succeeds, and printing
\* the result succeeds and gives a text.
C3_UnaryOnlyDerivPrints ==
  (result.op = "deriv" /\ UnaryOnly(heap, result.arg)) =>
    /\ result.kind = "ok"
    /\ to_string(heap, result.ptr).kind = "ok"

\* C4: differentiate fails (DerivativeUnsupported) on every tree holding a
\* BinaryOp node, at the root or under unary operators, and then hands no
\* tree to the caller: no pointer, no new object.
C4_BinaryDerivFails ==
  [][(result'.op = "deriv" /\ calls' # calls /\ ContainsBinary(heap, result'.arg)) =>
       /\ result'.kind = "throw"
       /\ result'.ptr = NULL
       /\ heap' = heap
       /\ handles' = handles]_vars

C4_Witness ==
  /\ result.op = "deriv"
  /\ result.kind = "throw"
  /\ result.arg # NULL
  /\ IsUnary(heap[result.arg])
  /\ IsBinary(heap[heap[result.arg].first])

\* C5: on a tree built by construction calls alone, evaluate fails exactly
\* when the tree holds a Variable; otherwise a Literal gives its value, a
\* UnaryOp its function of the evaluated child, a BinaryOp (left) op (right).
C5_EvalPostOrder ==
  (result.op = "eval" /\ result.arg \in apiOnly) =>
    LET n == heap[result.arg]
        l == eval(heap, n.first, "LR").val
        r == eval(heap, n.second, "LR").val
        ints == IF IsUnary(n) THEN l[1] = "int" ELSE l[1] = "int" /\ r[1] = "int"
    IN  /\ result.kind \in {"ok", "throw"}
        /\ (result.kind = "throw") <=> ContainsVariable(heap, result.arg)
        /\ result.kind = "ok" =>
             CASE n.kind = "Numeric" -> result.val = <<"int", n.value>>
               [] n.kind = "Neg" /\ ints -> result.val = <<"int", 0 - l[2]>>
               [] n.kind = "Sum" /\ ints -> result.val = <<"int", l[2] + r[2]>>
               [] n.kind = "Difference" /\ ints -> result.val = <<"int", l[2] - r[2]>>
               [] n.kind = "Product" /\ ints -> result.val = <<"int", l[2] * r[2]>>
               [] n.kind = "Neg" -> result.val = <<"neg", l>>
               [] n.kind = "Exp" -> result.val = <<"exp", l>>
               [] n.kind = "Log" -> result.val = <<"log", l>>
               [] n.kind = "Sin" -> result.val = <<"sin", l>>
               [] n.kind = "Cos" -> result.val = <<"cos", l>>
               [] n.kind = "Sum" -> result.val = <<"plus", l, r>>
               [] n.kind = "Difference" -> result.val = <<"minus", l, r>>
               [] n.kind = "Product" -> result.val = <<"multiplies", l, r>>
               [] n.kind = "Division" -> result.val = <<"divides", l, r>>

\* difference(numeric(2), numeric(3)) evaluated to -1.
C5_Witness ==
  /\ result.op = "eval"
  /\ result.arg \in apiOnly
  /\ result.kind = "ok"
  /\ heap[result.arg].kind = "Difference"
  /\ result.val = <<"int", 0 - 1>>

\* C6: differentiate(variable(v), w) never fails and returns a Literal
\* holding 1 when v = w and a Literal holding 0 otherwise.
C6_VariableDeriv ==
  \A k \in {"Variable"} :
    DerivOf(k) =>
      /\ result.kind = "ok"
      /\ result.ptr # NULL
      /\ heap[result.ptr] =
           Numeric(IF heap[result.arg].variable = result.wrt THEN 1 ELSE 0)

C6_Witness ==
  /\ DerivOf("Variable")
  /\ heap[result.arg].variable # result.wrt
  /\ result.kind = "ok"
  /\ heap[result.ptr].value = 0

\* The tree at q is in structure what differentiating u gives.
IsDerivOf(q, u) ==
  LET d == deriv(heap, u, result.wrt)
  IN  d.kind = "ok" /\ Tree(heap, q) = Tree(d.heap, d.ptr)

\* C7: when u' = differentiate(u, x) succeeds, negate(u) gives negate(u'),
\* log(u) gives divide(u', u), sin(u) gives multiply(u', cos(u)) and cos(u)
\* gives multiply(u', negate(sin(u))), each u being the input's own child.
C7_UnaryRules ==
  (result.op = "deriv" /\ result.kind = "ok" /\ result.arg # NULL) =>
    LET e == heap[result.arg]
        u == e.first
        root == heap[result.ptr]
    IN  /\ e.kind = "Neg" =>
             /\ root.kind = "Neg"
             /\ IsDerivOf(root.first, u)
        /\ e.kind = "Log" =>
             /\ root.kind = "Division"
             /\ IsDerivOf(root.first, u)
             /\ root.second = u
        /\ e.kind = "Sin" =>
             /\ root.kind = "Product"
             /\ IsDerivOf(root.first, u)
             /\ root.second # NULL
             /\ heap[root.second] = UnaryOperation("Cos", u)
        /\ e.kind = "Cos" =>
             /\ root.kind = "Product"
             /\ IsDerivOf(root.first, u)
             /\ root.second # NULL
             /\ heap[root.second].kind = "Neg"
             /\ heap[root.second].first # NULL
             /\ heap[heap[root.second].first] = UnaryOperation("Sin", u)

C7_Witness ==
  /\ DerivOf("Cos")
  /\ result.kind = "ok"
  /\ heap[result.ptr].kind = "Product"

\* C8: when u' = differentiate(u, x) succeeds, differentiate(exp(u), x)
\* returns add(exp(u), u'): a BinaryOp tagged add, a new exp node over the
\* same u on the left, u' on the right.
C8_ExpRuleIsAdd ==
  (DerivOf("Exp") /\ result.kind = "ok") =>
    LET u == heap[result.arg].first
        root == heap[result.ptr]
    IN  /\ root.kind = "Sum"
        /\ root.first # NULL
        /\ root.first # result.arg
        /\ heap[root.first] = UnaryOperation("Exp", u)
        /\ IsDerivOf(root.second, u)

C8_Witness ==
  /\ DerivOf("Exp")
  /\ result.kind = "ok"
  /\ heap[result.ptr].kind = "Sum"

\* C9: no call changes an existing node: each object keeps its kind, value,
\* name and children, and evaluate and to_text on the trees the call was
\* given give the same outcome after the call as before it.
C9_NodesNeverChange ==
  [][/\ Len(heap') >= Len(heap)
     /\ SubSeq(heap', 1, Len(heap)) = heap
     /\ \A e \in {result'.arg, result'.arg2} \ {NULL} :
          heap' # heap =>
            /\ \A ord \in ArgOrders : eval(heap', e, ord) = eval(heap, e, ord)
            /\ to_string(heap', e) = to_string(heap, e)]_vars

\* A tree was printed after a later construction call took it as a child.
C9_Witness ==
  /\ result.op = "to_string"
  /\ result.kind = "ok"
  /\ \E i \in 1..Len(heap) : i > result.arg /\ heap[i].first = result.arg

\* The number of "(" in a text.
RECURSIVE OpenParens(_)
OpenParens(t) ==
  IF t = <<>> THEN 0
  ELSE (IF Head(t) = "(" THEN 1 ELSE 0) + OpenParens(Tail(t))

\* The number of BinaryOp, exp, log, sin and cos nodes of the tree under p,
\* a shared subtree counted once for each path to it.
RECURSIVE ParenNodes(_, _)
ParenNodes(h, p) ==
  IF p = NULL THEN 0
  ELSE CASE IsBinary(h[p]) -> 1 + ParenNodes(h, h[p].first) + ParenNodes(h, h[p].second)
         [] h[p].kind = "Neg" -> ParenNodes(h, h[p].first)
         [] IsUnary(h[p]) -> 1 + ParenNodes(h, h[p].first)
         [] OTHER -> 0

\* C10: to_text renders a BinaryOp as "(" left " op " right ")", exp, log,
\* sin and cos as name "(" child ")", negate as "-" child, a Variable as its
\* name; every BinaryOp gives one pair of parentheses and none is elided.
C10_ToTextFormat ==
  (result.op = "to_string" /\ result.arg \in apiOnly) =>
    LET n == heap[result.arg]
        l == to_string(heap, n.first).text
        r == to_string(heap, n.second).text
    IN  /\ result.kind = "ok"
        /\ OpenParens(result.text) = ParenNodes(heap, result.arg)
        /\ CASE n.kind = "Sum" -> result.text = <<"(">> \o l \o <<" ", "+", " ">> \o r \o <<")">>
             [] n.kind = "Difference" ->
                  result.text = <<"(">> \o l \o <<" ", "-", " ">> \o r \o <<")">>
             [] n.kind = "Product" ->
                  result.text = <<"(">> \o l \o <<" ", "*", " ">> \o r \o <<")">>
             [] n.kind = "Division" ->
                  result.text = <<"(">> \o l \o <<" ", "/", " ">> \o r \o <<")">>
             [] n.kind = "Exp" -> result.text = <<"e", "x", "p", "(">> \o l \o <<")">>
             [] n.kind = "Log" -> result.text = <<"l", "o", "g", "(">> \o l \o <<")">>
             [] n.kind = "Sin" -> result.text = <<"s", "i", "n", "(">> \o l \o <<")">>
             [] n.kind = "Cos" -> result.text = <<"c", "o", "s", "(">> \o l \o <<")">>
             [] n.kind = "Neg" -> result.text = <<"-">> \o l
             [] n.kind = "Variable" ->
                  (n.variable = "foo" => result.text = <<"f", "o", "o">>)
             [] OTHER -> TRUE

\* sum(numeric(2), numeric(3)) printed as "(2.000000 + 3.000000)".
C10_Witness ==
  /\ result.op = "to_string"
  /\ result.arg \in apiOnly
  /\ result.text = <<"(", "2", ".", "0", "0", "0", "0", "0", "0", " ", "+", " ",
                     "3", ".", "0", "0", "0", "0", "0", "0", ")">>

====
